---- MODULE Spec2Model ----
(***************************************************************************)
(* Realtime presence / notification layer of Memory-Lane-Backend           *)
(* (src/app/events/socketio_events.py): the process-wide dictionary        *)
(* active_connections, the Socket.IO rooms the handlers join and leave,    *)
(* and the events each handler emits; and its geospatial queries           *)
(* (src/app/models/memory.py, src/app/routes/geospatial.py,                *)
(* src/app/routes/memories.py) over the table of memories.                 *)
(*                                                                         *)
(* Modelling conventions                                                   *)
(*  - The handlers read request.sid, but socketio_events.py imports no     *)
(*    name "request": the model reads it as flask.request of the           *)
(*    Flask-SocketIO request context, so that request.sid is the id of the *)
(*    connection whose event is handled.  (As the file stands, evaluating  *)
(*    request.sid raises NameError in every handler.)                      *)
(*  - Connection ids are opaque and never reused, so they are numbered in  *)
(*    the order in which the connections arrive: the insertion order of    *)
(*    the dictionary (the order in which Python iterates it) is then the   *)
(*    ascending order of sids.                                             *)
(*  - A coordinate is a float, held as an integer number of 1e-4 degrees;  *)
(*    a grid value is an integer number of 1e-3 degrees.                   *)
(*  - JSON / Python values are tagged tuples: <<"none">>, <<"num", v>>,    *)
(*    <<"str", 0>>.  An absent dictionary key is the empty tuple <<>>.     *)
(*  - join_room, leave_room and disconnect are the flask_socketio calls;   *)
(*    the server puts every connection in a room of its own sid and takes  *)
(*    a connection out of every room when it is torn down.                 *)
(*  - socketio.emit delivers a payload once the handler has built it: the  *)
(*    JSON encoding of the payload is not modelled.                        *)
(*  - What fails is an input of the action: the emit of a handler's answer *)
(*    or the commit of handle_connect may raise; join_room and leave_room  *)
(*    of a live connection do not.  disconnect() called by handle_connect  *)
(*    ends the connection and its room memberships; it is not taken to run *)
(*    handle_disconnect.                                                   *)
(*  - The events of one connection are handled one after the other.        *)
(***************************************************************************)
EXTENDS Integers, Sequences, FiniteSets, TLC

VARIABLES
    active_connections, \* sid -> session dictionary (socketio_events.py:12)
    rooms,              \* Socket.IO room membership: set of <<room, sid>>
    conn_state,         \* transport state of every connection id
    pc,                 \* position of the handler running for a connection
    last,               \* the event handled last and what it emitted
    memories,           \* rows of the table 'memories' (models/memory.py:28), by memory_id
    discoveries_count   \* users.discoveries_count of every user row

db == <<memories, discoveries_count>>
vars == <<active_connections, rooms, conn_state, pc, last, memories, discoveries_count>>

(***************************************************************************)
(* Bounds                                                                  *)
(***************************************************************************)
NumSids == 2
NumUsers == 2

Sids == 1..NumSids
ActiveUsers == 1..NumUsers
NoSuchUser == 0                 \* a token whose subject has no row
InactiveUser == NumUsers + 1    \* a row with is_active = False
Subjects == {NoSuchUser} \cup ActiveUsers \cup {InactiveUser}

(***************************************************************************)
(* Values                                                                  *)
(***************************************************************************)
None == <<"none">>
Num(v) == <<"num", v>>
Str == <<"str", 0>>
Absent == <<>>

IsNum(x) == x[1] = "num"

\* Python truthiness of a JSON value: None, 0 and 0.0 are false
Truthy(x) == IF IsNum(x) THEN x[2] # 0 ELSE x # None

\* The coordinates clients send in join_location.
Coordinates ==
    { <<Num(407124), Num(-740058)>>,   \* 40.7124, -74.0058: cell 40.712, -74.006
      <<Num(407128), Num(-740058)>>,   \* 40.7128 rounds to the next cell
      <<Num(0), Num(-740058)>>,        \* on the equator
      <<Num(407124), Num(0)>>,         \* on the prime meridian
      <<Num(910000), Num(-740058)>>,   \* latitude 91
      <<None, Num(-740058)>> }         \* latitude missing

\* User.username of a row
username(u) == <<"name", u>>

\* the room name without the user id
user_room_shared(u) == <<"user", NoSuchUser>>
\* f"user_{user_id}"
user_room(u) == <<"user", u>>

\* the room the server keeps for every connection, named by its sid
sid_room(s) == <<"sid", s>>

\* round(x, 3) on a float: nearest multiple of 1e-3, ties to even
round3(v) ==
    LET q == v \div 10
        r == v % 10
    IN  IF r < 5 THEN q
        ELSE IF r > 5 THEN q + 1
        ELSE IF q % 2 = 0 THEN q ELSE q + 1

\* f"location_{lat_grid}_{lon_grid}"
location_room_name(lat_grid, lon_grid) == <<"location", lat_grid, lon_grid>>

\* lines 102-105 / 322-324: the grid room of a pair of numbers
grid_room(latitude, longitude) ==
    location_room_name(round3(latitude[2]), round3(longitude[2]))

(***************************************************************************)
(* Socket.IO rooms                                                         *)
(***************************************************************************)
join_room(rm, room, sid) == rm \cup {<<room, sid>>}
leave_room(rm, room, sid) == rm \ {<<room, sid>>}
\* teardown of a connection: it leaves every room
disconnect(rm, sid) == {m \in rm : m[2] # sid}
members(rm, room) == {m[2] : m \in {x \in rm : x[1] = room}}
\* socketio.emit(event, ..., room=room): one delivery per member
emit_room(rm, room, event) == {<<s, event>> : s \in members(rm, room)}

(***************************************************************************)
(* The dictionary                                                          *)
(***************************************************************************)
Keys == DOMAIN active_connections
\* a pop that removes nothing
pop_skipped(ac, sid) == ac
pop(ac, sid) == [s \in (DOMAIN ac) \ {sid} |-> ac[s]]
put(ac, sid, info) == [s \in (DOMAIN ac) \cup {sid} |-> IF s = sid THEN info ELSE ac[s]]

Idle == <<"idle">>

Init ==
    /\ active_connections = <<>>
    /\ rooms = {}
    /\ conn_state = [s \in Sids |-> "new"]
    /\ pc = [s \in Sids |-> Idle]
    /\ last = [op |-> "init", sid |-> 0, emitted |-> {}, data |-> None]
    /\ memories = <<>>
    /\ discoveries_count = [u \in ActiveUsers |-> 0]

(***************************************************************************)
(* connect (lines 15-64)                                                   *)
(***************************************************************************)
NoAuth == None               \* auth is empty or has no 'token'
BadToken == <<"bad", 0>>     \* decode_token raises: malformed or expired
Token(u) == <<"tok", u>>     \* a token that decodes, with sub = u
AuthValues == {NoAuth, BadToken} \cup {Token(u) : u \in Subjects}
Faults == {"none", "emit", "commit"}

\* line 20
has_token(auth) == auth # NoAuth
\* lines 25-30
decode_ok(auth) == auth[1] = "tok"
\* the check of line 34 without "not user.is_active"
user_ok_ignoring_is_active(u) == u # NoSuchUser
\* lines 33-34: User.query.get(user_id) is a row with is_active
user_ok(u) == u # NoSuchUser /\ u # InactiveUser
\* lines 20-36: the connection is let in
accepted(auth) == has_token(auth) /\ decode_ok(auth) /\ user_ok(auth[2])

\* lines 39-43 (connected_at, a timestamp, is left out)
new_session(u) ==
    [user_id |-> u, username |-> username(u),
     location_room |-> Absent, current_location |-> Absent]

handle_connect(sid, auth, fault) ==
    LET own == join_room(rooms, sid_room(sid), sid) IN
    /\ conn_state[sid] = "new"
    /\ \A s \in Sids : s < sid => conn_state[s] # "new"
    /\ pc' = pc
    /\ IF ~accepted(auth)
       THEN \* lines 21-22, 29-30, 35-36: disconnect(); return False
            /\ fault = "none"
            /\ active_connections' = active_connections
            /\ rooms' = disconnect(own, sid)
            /\ conn_state' = [conn_state EXCEPT ![sid] = "rejected"]
            /\ last' = [op |-> "connect", sid |-> sid, emitted |-> {},
                        data |-> [auth |-> auth, fault |-> fault, ret |-> "False"]]
       ELSE LET u == auth[2]
                joined == join_room(own, user_room(u), sid)
            IN  /\ active_connections' = put(active_connections, sid, new_session(u))
                /\ IF fault = "none"
                   THEN /\ rooms' = joined
                        /\ conn_state' = [conn_state EXCEPT ![sid] = "connected"]
                        /\ last' = [op |-> "connect", sid |-> sid,
                                    emitted |-> {<<sid, "connected">>},
                                    data |-> [auth |-> auth, fault |-> fault, ret |-> "None"]]
                   ELSE \* lines 61-64: emit or commit raised; disconnect(); return False
                        /\ rooms' = disconnect(joined, sid)
                        /\ conn_state' = [conn_state EXCEPT ![sid] = "rejected"]
                        /\ last' = [op |-> "connect", sid |-> sid,
                                    emitted |-> IF fault = "commit"
                                                THEN {<<sid, "connected">>} ELSE {},
                                    data |-> [auth |-> auth, fault |-> fault, ret |-> "False"]]

HandleConnect == \E sid \in Sids, auth \in AuthValues, fault \in Faults :
    handle_connect(sid, auth, fault) /\ UNCHANGED db

(***************************************************************************)
(* disconnect (lines 67-82), then the server's teardown of the connection  *)
(***************************************************************************)
handle_disconnect(sid) ==
    LET left == IF sid \in Keys
                THEN leave_room(rooms, user_room(active_connections[sid].user_id), sid)
                ELSE rooms
    IN  /\ conn_state[sid] = "connected"
        /\ pc[sid] = Idle
        /\ active_connections' = pop(active_connections, sid)
        /\ rooms' = disconnect(left, sid)
        /\ conn_state' = [conn_state EXCEPT ![sid] = "disconnected"]
        /\ pc' = pc
        /\ last' = [op |-> "disconnect", sid |-> sid, emitted |-> {},
                    data |-> [location_room |-> IF sid \in Keys
                                                THEN active_connections[sid].location_room
                                                ELSE Absent]]

HandleDisconnect == \E sid \in Sids : handle_disconnect(sid) /\ UNCHANGED db

\* An event is dispatched for a live connection; the handlers also guard
\* against a connection that has no session (rejected, or disconnected).
dispatched(sid) ==
    /\ pc[sid] = Idle
    /\ \/ conn_state[sid] = "connected"
       \/ conn_state[sid] # "new" /\ sid \notin Keys

(***************************************************************************)
(* join_location (lines 85-126)                                            *)
(***************************************************************************)
\* line 96: "if not latitude or not longitude"
coordinates_missing(latitude, longitude) == ~Truthy(latitude) \/ ~Truthy(longitude)

\* lines 108-109 left out: the previous room is kept
leave_previous_skipped(rm, info, sid) == rm
\* lines 108-109
leave_previous(rm, info, sid) ==
    IF info.location_room # Absent THEN leave_room(rm, info.location_room, sid) ELSE rm

\* line 113 run only for a session that has no room yet
set_location_room_once(info, room) ==
    IF info.location_room = Absent THEN [info EXCEPT !.location_room = room] ELSE info
\* line 113
set_location_room(info, room) == [info EXCEPT !.location_room = room]
\* lines 114-117 run only for a session that has no coordinates yet
set_current_location_once(info, latitude, longitude) ==
    IF info.current_location = Absent
    THEN [info EXCEPT !.current_location = <<latitude, longitude>>]
    ELSE info
\* lines 114-117: the coordinates are stored as they were sent
set_current_location(info, latitude, longitude) ==
    [info EXCEPT !.current_location = <<latitude, longitude>>]

ErrRequired == "Latitude and longitude are required"
ErrJoin == "Failed to join location"

\* what can go wrong in a handler of a registered session: nothing, or the
\* emit of its answer raises (the transport or the message queue fails)
EventFaults == {"none", "emit"}

handle_join_location(sid, latitude, longitude, fault) ==
    /\ dispatched(sid)
    /\ UNCHANGED <<conn_state, pc>>
    /\ IF sid \notin Keys
       THEN \* lines 90-91
            /\ fault = "none"
            /\ UNCHANGED <<active_connections, rooms>>
            /\ last' = [op |-> "join_location", sid |-> sid, emitted |-> {},
                        data |-> [latitude |-> latitude, longitude |-> longitude,
                                  message |-> "", room |-> Absent,
                                  previous |-> Absent, fault |-> fault]]
       ELSE IF coordinates_missing(latitude, longitude)
       THEN \* lines 96-98
            /\ fault = "none"
            /\ UNCHANGED <<active_connections, rooms>>
            /\ last' = [op |-> "join_location", sid |-> sid,
                        emitted |-> {<<sid, "error">>},
                        data |-> [latitude |-> latitude, longitude |-> longitude,
                                  message |-> ErrRequired, room |-> Absent,
                                  previous |-> active_connections[sid].location_room,
                                  fault |-> fault]]
       ELSE IF ~IsNum(latitude) \/ ~IsNum(longitude)
       THEN \* round() raises TypeError: lines 125-126
            /\ fault = "none"
            /\ UNCHANGED <<active_connections, rooms>>
            /\ last' = [op |-> "join_location", sid |-> sid,
                        emitted |-> {<<sid, "error">>},
                        data |-> [latitude |-> latitude, longitude |-> longitude,
                                  message |-> ErrJoin, room |-> Absent,
                                  previous |-> active_connections[sid].location_room,
                                  fault |-> fault]]
       ELSE LET info == active_connections[sid]
                location_room == grid_room(latitude, longitude)
            IN  \* lines 108-117 have run when the emit of line 119 raises;
                \* lines 125-126 then answer with the error
                /\ rooms' = join_room(leave_previous(rooms, info, sid), location_room, sid)
                /\ active_connections' =
                       put(active_connections, sid,
                           set_current_location(set_location_room(info, location_room),
                                                latitude, longitude))
                /\ last' = [op |-> "join_location", sid |-> sid,
                            emitted |-> IF fault = "none"
                                        THEN {<<sid, "location_joined">>}
                                        ELSE {<<sid, "error">>},
                            data |-> [latitude |-> latitude, longitude |-> longitude,
                                      message |-> IF fault = "none" THEN "" ELSE ErrJoin,
                                      room |-> location_room,
                                      previous |-> info.location_room, fault |-> fault]]

HandleJoinLocation == \E sid \in Sids, c \in Coordinates, fault \in EventFaults :
    handle_join_location(sid, c[1], c[2], fault) /\ UNCHANGED db

(***************************************************************************)
(* leave_location (lines 129-145)                                          *)
(***************************************************************************)
\* lines 139-140
clear_location(info) ==
    [info EXCEPT !.location_room = Absent, !.current_location = Absent]

handle_leave_location(sid, fault) ==
    /\ dispatched(sid)
    /\ UNCHANGED <<conn_state, pc>>
    /\ IF sid \in Keys /\ active_connections[sid].location_room # Absent
       THEN LET info == active_connections[sid] IN
            \* lines 138-140 have run when the emit of line 142 raises
            /\ rooms' = leave_room(rooms, info.location_room, sid)
            /\ active_connections' = put(active_connections, sid, clear_location(info))
            /\ last' = [op |-> "leave_location", sid |-> sid,
                        emitted |-> IF info.current_location # Absent /\ fault = "none"
                                    THEN {<<sid, "location_left">>}
                                    ELSE {<<sid, "error">>},   \* line 140 raises KeyError
                        data |-> [previous |-> info.location_room, fault |-> fault]]
       ELSE \* lines 134-135, or no location_room: nothing is done or emitted
            /\ fault = "none"
            /\ UNCHANGED <<active_connections, rooms>>
            /\ last' = [op |-> "leave_location", sid |-> sid, emitted |-> {},
                        data |-> [previous |-> Absent, fault |-> fault]]

HandleLeaveLocation == \E sid \in Sids, fault \in EventFaults :
    handle_leave_location(sid, fault) /\ UNCHANGED db

(***************************************************************************)
(* get_nearby_users (lines 253-278)                                        *)
(***************************************************************************)
\* the sequence of the sids in S, ascending: the order of iteration
RECURSIVE ascending(_)
ascending(S) ==
    IF S = {} THEN <<>>
    ELSE LET m == CHOOSE x \in S : \A y \in S : x <= y
         IN  <<m>> \o ascending(S \ {m})

\* lines 266-267 without the test of the room
nearby_match_any_room(ac, location_room, user_id) ==
    {s \in DOMAIN ac : ac[s].user_id # user_id}

\* lines 266-267: the sessions the loop keeps
nearby_match(ac, location_room, user_id) ==
    {s \in DOMAIN ac : ac[s].location_room = location_room /\ ac[s].user_id # user_id}

\* lines 269-273 (sid is not part of the payload; it names the session here)
nearby_entry(ac, s) ==
    [sid |-> s, user_id |-> ac[s].user_id, username |-> ac[s].username,
     location |-> ac[s].current_location]

\* the list without the test of line 258 for a session that has no room
nearby_users_unguarded(ac, sid) ==
    IF sid \notin DOMAIN ac
    THEN <<>>
    ELSE LET order == ascending(nearby_match(ac, ac[sid].location_room, ac[sid].user_id))
         IN  [i \in 1..Len(order) |-> nearby_entry(ac, order[i])]
\* lines 257-275: the list sent in nearby_users
nearby_users(ac, sid) ==
    IF sid \notin DOMAIN ac \/ ac[sid].location_room = Absent
    THEN <<>>
    ELSE LET order == ascending(nearby_match(ac, ac[sid].location_room, ac[sid].user_id))
         IN  [i \in 1..Len(order) |-> nearby_entry(ac, order[i])]

handle_get_nearby_users(sid) ==
    /\ dispatched(sid)
    /\ UNCHANGED <<active_connections, rooms, conn_state, pc>>
    /\ last' = [op |-> "get_nearby_users", sid |-> sid,
                emitted |-> {<<sid, "nearby_users">>},
                data |-> [room |-> IF sid \in Keys
                                   THEN active_connections[sid].location_room
                                   ELSE Absent,
                          users |-> nearby_users(active_connections, sid)]]

HandleGetNearbyUsers == \E sid \in Sids : handle_get_nearby_users(sid) /\ UNCHANGED db

(***************************************************************************)
(* notify_user (lines 310-315), notify_location (lines 319-336)            *)
(***************************************************************************)
notify_user(user_id) ==
    /\ UNCHANGED <<active_connections, rooms, conn_state, pc>>
    /\ last' = [op |-> "notify_user", sid |-> 0,
                emitted |-> emit_room(rooms, user_room(user_id), "notify"),
                data |-> user_id]

NotifyUser == \E u \in ActiveUsers \cup {NoSuchUser} : notify_user(u) /\ UNCHANGED db

\* lines 328-330 without the test of line 330
location_targets_unfiltered(ac, location_room, exclude_user_id) ==
    ascending({s \in DOMAIN ac : ac[s].location_room = location_room})

\* lines 328-330: the sessions the loop emits to, in the order of iteration
location_targets(ac, location_room, exclude_user_id) ==
    ascending({s \in DOMAIN ac : ac[s].location_room = location_room
                                   /\ ac[s].user_id # exclude_user_id})

\* line 331 in the loop: an emit that raises ends the loop (lines 335-336)
RECURSIVE emit_each(_, _, _)
emit_each(rm, targets, fail) ==
    IF targets = <<>> \/ Head(targets) = fail THEN {}
    ELSE emit_room(rm, sid_room(Head(targets)), "notify")
         \cup emit_each(rm, Tail(targets), fail)

NoExclude == -1   \* exclude_user_id=None
NoFail == 0       \* no emit raises

notify_location(latitude, longitude, exclude_user_id, fail) ==
    /\ UNCHANGED <<active_connections, rooms, conn_state, pc>>
    /\ IF ~IsNum(latitude) \/ ~IsNum(longitude)
       THEN \* round() raises TypeError: lines 335-336
            /\ fail = NoFail
            /\ last' = [op |-> "notify_location", sid |-> 0, emitted |-> {},
                        data |-> [latitude |-> latitude, longitude |-> longitude,
                                  exclude |-> exclude_user_id, fail |-> fail]]
       ELSE LET location_room == grid_room(latitude, longitude)
                targets == location_targets(active_connections, location_room,
                                            exclude_user_id)
            IN  IF exclude_user_id # NoExclude
                THEN /\ fail = NoFail \/ \E i \in 1..Len(targets) : targets[i] = fail
                     /\ last' = [op |-> "notify_location", sid |-> 0,
                                 emitted |-> emit_each(rooms, targets, fail),
                                 data |-> [latitude |-> latitude, longitude |-> longitude,
                                           exclude |-> exclude_user_id, fail |-> fail]]
                ELSE /\ fail = NoFail
                     /\ last' = [op |-> "notify_location", sid |-> 0,
                                 emitted |-> emit_room(rooms, location_room, "notify"),
                                 data |-> [latitude |-> latitude, longitude |-> longitude,
                                           exclude |-> exclude_user_id, fail |-> fail]]

\* the coordinates notifications are raised for
NotifyCoordinates ==
    { <<Num(407121), Num(-740061)>>,   \* 40.7121, -74.0061: cell 40.712, -74.006
      <<None, Num(-740058)>> }

NotifyLocation ==
    \E c \in NotifyCoordinates, x \in {NoExclude} \cup ActiveUsers, f \in {NoFail} \cup Sids :
        notify_location(c[1], c[2], x, f) /\ UNCHANGED db

(***************************************************************************)
(* ping (lines 281-284), user_status (lines 287-306)                       *)
(***************************************************************************)
handle_ping(sid) ==
    /\ dispatched(sid)
    /\ UNCHANGED <<active_connections, rooms, conn_state, pc>>
    /\ last' = [op |-> "ping", sid |-> sid, emitted |-> {<<sid, "pong">>}, data |-> None]

HandlePing == \E sid \in Sids : handle_ping(sid) /\ UNCHANGED db

\* a lookup that hands out the slot as it is
dict_get_raw(value) == value
\* dict.get(key): None for a key the dictionary does not hold
dict_get(value) == IF value = Absent THEN None ELSE value

\* lines 296-303: the payload of 'status' (connected_at, a timestamp, is left out)
status_payload(info) ==
    [connected |-> TRUE, user_id |-> info.user_id, username |-> info.username,
     current_location |-> dict_get(info.current_location),
     location_room |-> dict_get(info.location_room)]

handle_user_status(sid) ==
    /\ dispatched(sid)
    /\ UNCHANGED <<active_connections, rooms, conn_state, pc>>
    /\ last' = [op |-> "user_status", sid |-> sid, emitted |-> {<<sid, "status">>},
                data |-> IF sid \in Keys
                         THEN status_payload(active_connections[sid])
                         ELSE [connected |-> FALSE]]   \* lines 292-294

HandleUserStatus == \E sid \in Sids : handle_user_status(sid) /\ UNCHANGED db

(***************************************************************************)
(* Threading mode (config.py:55): handlers of different connections run in *)
(* different threads and active_connections has no lock.  join_location    *)
(* and leave_location are cut between their two writes to the session      *)
(* (lines 113 | 114 and 139 | 140); the events of one connection stay      *)
(* serial.                                                                 *)
(***************************************************************************)
join_location_begin(sid, latitude, longitude) ==
    IF sid \in Keys /\ ~coordinates_missing(latitude, longitude)
                    /\ IsNum(latitude) /\ IsNum(longitude)
    THEN LET info == active_connections[sid]
             location_room == grid_room(latitude, longitude)
         IN  /\ dispatched(sid)
             /\ rooms' = join_room(leave_previous(rooms, info, sid), location_room, sid)
             /\ active_connections' =
                    put(active_connections, sid, set_location_room(info, location_room))
             /\ pc' = [pc EXCEPT ![sid] = <<"join", latitude, longitude>>]
             /\ last' = [op |-> "join_location_113", sid |-> sid, emitted |-> {},
                         data |-> None]
             /\ UNCHANGED conn_state
    ELSE handle_join_location(sid, latitude, longitude, "none")

join_location_end(sid) ==
    /\ pc[sid][1] = "join"
    /\ LET info == active_connections[sid] IN
       /\ active_connections' =
              put(active_connections, sid, set_current_location(info, pc[sid][2], pc[sid][3]))
       /\ last' = [op |-> "join_location", sid |-> sid,
                   emitted |-> {<<sid, "location_joined">>},
                   data |-> [latitude |-> pc[sid][2], longitude |-> pc[sid][3],
                             message |-> "", room |-> info.location_room,
                             previous |-> Absent, fault |-> "none"]]
    /\ pc' = [pc EXCEPT ![sid] = Idle]
    /\ UNCHANGED <<rooms, conn_state>>

leave_location_begin(sid) ==
    IF sid \in Keys /\ active_connections[sid].location_room # Absent
    THEN LET info == active_connections[sid] IN
         /\ dispatched(sid)
         /\ rooms' = leave_room(rooms, info.location_room, sid)
         /\ active_connections' =
                put(active_connections, sid, [info EXCEPT !.location_room = Absent])
         /\ pc' = [pc EXCEPT ![sid] = <<"leave">>]
         /\ last' = [op |-> "leave_location_139", sid |-> sid, emitted |-> {},
                     data |-> None]
         /\ UNCHANGED conn_state
    ELSE handle_leave_location(sid, "none")

leave_location_end(sid) ==
    /\ pc[sid][1] = "leave"
    /\ LET info == active_connections[sid] IN
       /\ active_connections' =
              put(active_connections, sid, [info EXCEPT !.current_location = Absent])
       /\ last' = [op |-> "leave_location", sid |-> sid,
                   emitted |-> {<<sid, "location_left">>},
                   data |-> [previous |-> Absent, fault |-> "none"]]
    /\ pc' = [pc EXCEPT ![sid] = Idle]
    /\ UNCHANGED <<rooms, conn_state>>

JoinLocationBegin == \E sid \in Sids, c \in Coordinates :
    join_location_begin(sid, c[1], c[2]) /\ UNCHANGED db
JoinLocationEnd == \E sid \in Sids : join_location_end(sid) /\ UNCHANGED db
LeaveLocationBegin == \E sid \in Sids : leave_location_begin(sid) /\ UNCHANGED db
LeaveLocationEnd == \E sid \in Sids : leave_location_end(sid) /\ UNCHANGED db

NextThreads ==
    \/ HandleConnect
    \/ HandleDisconnect
    \/ JoinLocationBegin
    \/ JoinLocationEnd
    \/ LeaveLocationBegin
    \/ LeaveLocationEnd
    \/ HandleGetNearbyUsers
    \/ NotifyLocation

SpecThreads == Init /\ [][NextThreads]_vars

Next ==
    \/ HandleConnect
    \/ HandleDisconnect
    \/ HandleJoinLocation
    \/ HandleLeaveLocation
    \/ HandleGetNearbyUsers
    \/ NotifyUser
    \/ NotifyLocation

Spec == Init /\ [][Next]_vars

(***************************************************************************)
(* Storage: the table 'memories' (models/memory.py:28-76).  The storage    *)
(* layer is modelled by the meaning of the SQL the code builds (filters,   *)
(* ORDER BY, LIMIT); Python evaluated in the handlers themselves is        *)
(* modelled as written.  A UUID column holds <<"uuid", u>>; its str() and  *)
(* the identity carried by a token are the number u.  Timestamps are       *)
(* integers, utcnow is the current one.                                    *)
(***************************************************************************)
MaxMemories == 2

NoMemory == 0                   \* no 'memory_id' in the event, or no such row
utcnow == 2                     \* datetime.utcnow() while the queries run

UUID(u) == <<"uuid", u>>
\* str(uuid.UUID)
str(id) == id[2]
\* uuid.UUID == str: UUID.__eq__ answers NotImplemented for a str, and the
\* comparison falls back to identity
uuid_eq_str(id, s) == FALSE

PrivacyLevels == {"public", "friends", "private"}

\* Memory.__init__ (lines 78-91) with the column defaults (lines 48-61)
Memory(creator_id, latitude, longitude, privacy_level) ==
    [creator_id |-> UUID(creator_id), latitude |-> latitude, longitude |-> longitude,
     content_type |-> Str, privacy_level |-> privacy_level, is_active |-> TRUE,
     created_at |-> utcnow, expiration_date |-> None,
     likes_count |-> 0, comments_count |-> 0, discoveries_count |-> 0]

\* Memory.is_expired (lines 93-98)
is_expired(memory) ==
    IF memory.expiration_date # None THEN utcnow > memory.expiration_date[2] ELSE FALSE

\* Memory.can_view (lines 170-189); user is a user id or NoSuchUser for None
can_view(memory, user) ==
    IF ~memory.is_active \/ is_expired(memory) THEN FALSE
    ELSE IF user # NoSuchUser /\ user = str(memory.creator_id) THEN TRUE
    ELSE memory.privacy_level = "public"

(***************************************************************************)
(* validators.py                                                           *)
(***************************************************************************)
NoError == ""

\* validate_coordinates (lines 103-120): an error message, or None
validate_coordinates(latitude, longitude) ==
    IF latitude = None \/ longitude = None THEN "Latitude and longitude are required"
    ELSE IF ~IsNum(latitude) \/ ~IsNum(longitude) THEN "Invalid coordinate format"
    ELSE IF ~(-900000 <= latitude[2] /\ latitude[2] <= 900000)
         THEN "Latitude must be between -90 and 90 degrees"
    ELSE IF ~(-1800000 <= longitude[2] /\ longitude[2] <= 1800000)
         THEN "Longitude must be between -180 and 180 degrees"
    ELSE NoError

(***************************************************************************)
(* POST /memories/ (routes/memories.py:18-109).  The token is valid and    *)
(* title and content_type are well-formed; latitude, longitude and         *)
(* privacy_level are the inputs.                                           *)
(***************************************************************************)
create_memory(current_user_id, latitude, longitude, privacy_level) ==
    LET status == IF latitude = Absent \/ longitude = Absent THEN 400
                  ELSE IF validate_coordinates(latitude, longitude) # NoError THEN 400
                  ELSE IF privacy_level \notin PrivacyLevels THEN 400
                  ELSE 201
    IN  /\ Len(memories) < MaxMemories
        /\ memories' = IF status = 201
                       THEN Append(memories, Memory(current_user_id, latitude[2],
                                                    longitude[2], privacy_level))
                       ELSE memories
        /\ last' = [op |-> "create_memory", sid |-> 0, emitted |-> {},
                    data |-> [status |-> status,
                              memory_id |-> IF status = 201 THEN Len(memories) + 1
                                            ELSE NoMemory]]
        /\ UNCHANGED <<active_connections, rooms, conn_state, pc, discoveries_count>>

\* the bodies clients post
CreateCoordinates ==
    { <<Num(407124), Num(-740058)>>,   \* 40.7124, -74.0058: cell 40.712, -74.006
      <<Num(407124), Absent>> }        \* no longitude

CreateMemory ==
    \E u \in ActiveUsers, c \in CreateCoordinates, p \in {"public", "private"} :
        create_memory(u, c[1], c[2], p)

(***************************************************************************)
(* memory_created (lines 148-181)                                          *)
(***************************************************************************)
\* Memory.query.get(memory_id) found a row and it is active (lines 160-162)
memory_found(memory_id) ==
    /\ memory_id # NoMemory
    /\ memory_id \in DOMAIN memories
    /\ memories[memory_id].is_active

\* a content_type whose .value never raises
has_value_any(content_type) == TRUE
\* memory.content_type.value (line 173): only an enum member has .value;
\* the column is a String and holds a str, for which AttributeError is raised
has_value(content_type) == content_type[1] = "enum"

\* lines 164-166: the grid room of a stored row
memory_room(memory) ==
    location_room_name(round3(memory.latitude), round3(memory.longitude))

\* the broadcast for any stored row, active or not, whatever its content_type
new_memory_nearby_unchecked(sid, memory_id) ==
    IF sid \in Keys /\ memory_id \in DOMAIN memories
    THEN emit_room(rooms, memory_room(memories[memory_id]), "new_memory_nearby")
    ELSE {}
\* lines 152-178: the deliveries of new_memory_nearby
new_memory_nearby(sid, memory_id) ==
    IF sid \in Keys /\ memory_found(memory_id)
                    /\ has_value(memories[memory_id].content_type)
    THEN emit_room(rooms, memory_room(memories[memory_id]), "new_memory_nearby")
    ELSE {}

handle_memory_created(sid, memory_id) ==
    /\ dispatched(sid)
    /\ last' = [op |-> "memory_created", sid |-> sid,
                emitted |-> new_memory_nearby(sid, memory_id),
                data |-> [memory_id |-> memory_id]]
    /\ UNCHANGED <<active_connections, rooms, conn_state, pc>>

\* the 'memory_id' of an event: none, a stored row, or an id that is not stored
MemoryIds == {NoMemory} \cup (1..(Len(memories) + 1))

HandleMemoryCreated == \E sid \in Sids, m \in MemoryIds :
    handle_memory_created(sid, m) /\ UNCHANGED db

(***************************************************************************)
(* memory_liked (lines 184-214) and memory_commented (lines 217-250)       *)
(***************************************************************************)
\* the emission without the test of lines 188-190 / 221-223
interaction_emitted_unregistered(sid, memory_id) ==
    IF ~memory_found(memory_id) THEN {}
    ELSE emit_room(rooms, user_room(str(memories[memory_id].creator_id)),
                   "memory_interaction")
\* lines 196-211 / 231-247: whom the interaction is emitted to
interaction_emitted(sid, memory_id) ==
    LET memory == memories[memory_id] IN
    IF ~(sid \in Keys /\ memory_found(memory_id)) THEN {}
    ELSE IF uuid_eq_str(memory.creator_id, active_connections[sid].user_id) THEN {}
    ELSE emit_room(rooms, user_room(str(memory.creator_id)), "memory_interaction")

handle_memory_liked(sid, memory_id) ==
    /\ dispatched(sid)
    /\ last' = [op |-> "memory_liked", sid |-> sid,
                emitted |-> interaction_emitted(sid, memory_id),
                data |-> [memory_id |-> memory_id]]
    /\ UNCHANGED <<active_connections, rooms, conn_state, pc>>

HandleMemoryLiked == \E sid \in Sids, m \in MemoryIds :
    handle_memory_liked(sid, m) /\ UNCHANGED db

handle_memory_commented(sid, memory_id) ==
    /\ dispatched(sid)
    /\ last' = [op |-> "memory_commented", sid |-> sid,
                emitted |-> interaction_emitted(sid, memory_id),
                data |-> [memory_id |-> memory_id]]
    /\ UNCHANGED <<active_connections, rooms, conn_state, pc>>

HandleMemoryCommented == \E sid \in Sids, m \in MemoryIds :
    handle_memory_commented(sid, m) /\ UNCHANGED db

\* the realtime layer together with the HTTP action that creates memories
NextMemoryEvents ==
    \/ HandleConnect
    \/ HandleJoinLocation
    \/ CreateMemory
    \/ HandleMemoryCreated
    \/ HandleMemoryLiked
    \/ HandleMemoryCommented

SpecMemoryEvents == Init /\ [][NextMemoryEvents]_vars

(***************************************************************************)
(* The memory events over a table that holds one row of every kind: the    *)
(* sessions connect with a token, join the cell of the rows and send the   *)
(* events for stored and for unknown ids.                                  *)
(***************************************************************************)
\* the coordinates the rows are stored at and the sessions join at
CellLatitude == 407124
CellLongitude == -740058

StoredKinds ==
    << <<"public", TRUE, None>>,      \* visible to all
       <<"public", TRUE, Num(1)>>,    \* expired
       <<"public", FALSE, None>>,     \* deactivated (models/memory.py:159)
       <<"private", TRUE, None>>,
       <<"friends", TRUE, None>> >>

BroadcastMemories ==
    [i \in 1..Len(StoredKinds) |->
        [Memory(1, CellLatitude, CellLongitude, StoredKinds[i][1])
            EXCEPT !.is_active = StoredKinds[i][2],
                   !.expiration_date = StoredKinds[i][3]]]

InitBroadcast ==
    /\ active_connections = <<>>
    /\ rooms = {}
    /\ conn_state = [s \in Sids |-> "new"]
    /\ pc = [s \in Sids |-> Idle]
    /\ last = [op |-> "init", sid |-> 0, emitted |-> {}, data |-> None]
    /\ memories = BroadcastMemories
    /\ discoveries_count = [u \in ActiveUsers |-> 0]

ConnectWithToken == \E sid \in Sids, auth \in {BadToken} \cup {Token(u) : u \in ActiveUsers} :
    handle_connect(sid, auth, "none") /\ UNCHANGED db

JoinCell == \E sid \in Sids :
    handle_join_location(sid, Num(CellLatitude), Num(CellLongitude), "none") /\ UNCHANGED db

NextBroadcast ==
    \/ ConnectWithToken
    \/ HandleDisconnect
    \/ JoinCell
    \/ HandleMemoryCreated
    \/ HandleMemoryLiked
    \/ HandleMemoryCommented

SpecBroadcast == InitBroadcast /\ [][NextBroadcast]_vars

(***************************************************************************)
(* The life of a session: connect with a token, the location events, the   *)
(* queries of the session (get_nearby_users, ping, user_status) and        *)
(* disconnect.                                                             *)
(***************************************************************************)
NextSessions ==
    \/ ConnectWithToken
    \/ HandleDisconnect
    \/ HandleJoinLocation
    \/ HandleLeaveLocation
    \/ HandleGetNearbyUsers
    \/ HandlePing
    \/ HandleUserStatus

SpecSessions == Init /\ [][NextSessions]_vars

(***************************************************************************)
(* Memory.find_nearby (models/memory.py:250-283).  Memory.location and the *)
(* query point are geometries of SRID 4326 (lines 35, 87, 253), so         *)
(* ST_Distance is the planar distance in degrees and ST_DWithin compares   *)
(* it, in degrees, with the number passed as radius_meters.  A distance is *)
(* held as its square, in (1e-4 degree)^2, which orders the same way.      *)
(***************************************************************************)
MaxLimit == 2

UnitsPerDegree == 10000         \* coordinates are held in 1e-4 degrees

\* d2 <= r * r for a square d2 that fits a machine integer (46341^2 does not)
sq_leq(d2, r) == r >= 46341 \/ d2 <= r * r

\* ST_Distance(cls.location, point), squared
ST_Distance(memory, latitude, longitude) ==
    (memory.latitude - latitude) * (memory.latitude - latitude)
    + (memory.longitude - longitude) * (memory.longitude - longitude)

\* ST_DWithin(cls.location, point, radius) on geometries: radius in degrees
ST_DWithin(memory, latitude, longitude, radius) ==
    sq_leq(ST_Distance(memory, latitude, longitude), radius * UnitsPerDegree)

\* lines 255-269: the WHERE clause; user is a user id, or NoSuchUser for None
nearby_filter(memory, latitude, longitude, radius_meters, user) ==
    /\ ST_DWithin(memory, latitude, longitude, radius_meters)
    /\ memory.is_active
    /\ IF user # NoSuchUser
       THEN memory.privacy_level = "public" \/ memory.creator_id = UUID(user)
       ELSE memory.privacy_level = "public"

\* every order of a set of rows
Orders(ids) ==
    {s \in [1..Cardinality(ids) -> ids] : \A i, j \in DOMAIN s : i # j => s[i] # s[j]}

\* rows in an order that breaks the rule of line 274
order_by_nothing(ids, latitude, longitude) == Orders(ids)
\* ORDER BY distance (line 274): the rows in non-decreasing distance; rows
\* at the same distance come in whatever order the database produces
order_by_distance(ids, latitude, longitude) ==
    {s \in Orders(ids) :
        \A i \in 1..(Len(s) - 1) :
            ST_Distance(memories[s[i]], latitude, longitude)
                <= ST_Distance(memories[s[i + 1]], latitude, longitude)}

\* .limit(limit)
sql_limit(s, limit) == SubSeq(s, 1, IF Len(s) < limit THEN Len(s) ELSE limit)

\* lines 255-274, 277: the row lists query.all() may return
nearby_rows(latitude, longitude, radius_meters, limit, user) ==
    LET ids == {i \in DOMAIN memories :
                    nearby_filter(memories[i], latitude, longitude, radius_meters, user)}
    IN  {sql_limit(s, limit) : s \in order_by_distance(ids, latitude, longitude)}

\* lines 276-283: to_dict answers None for a row the viewer cannot view
find_nearby(rows, latitude, longitude, user) ==
    LET viewable == SelectSeq(rows, LAMBDA i : can_view(memories[i], user))
    IN  [k \in DOMAIN viewable |->
            [memory_id |-> viewable[k],
             distance |-> ST_Distance(memories[viewable[k]], latitude, longitude)]]

\* the rows the table holds when it is queried: one creator, at the centre /
\* 3e-4 degrees (33 m) / two degrees (222 km) north of it, visible or not
StoredRows ==
    { [Memory(1, lat, -740058, p[1]) EXCEPT !.is_active = p[2], !.expiration_date = p[3]] :
        lat \in {407124, 407127, 427124},
        p \in { <<"public", TRUE, None>>,      \* visible to all
                <<"public", TRUE, Num(1)>>,    \* expired
                <<"public", FALSE, None>>,     \* deactivated
                <<"private", TRUE, None>>,
                <<"friends", TRUE, None>> } }

\* a table of MaxMemories rows, created one after the other
StoredMemories ==
    {[i \in 1..MaxMemories |-> [t[i] EXCEPT !.created_at = i]] :
        t \in [1..MaxMemories -> StoredRows]}

InitFindNearby ==
    /\ active_connections = <<>>
    /\ rooms = {}
    /\ conn_state = [s \in Sids |-> "new"]
    /\ pc = [s \in Sids |-> Idle]
    /\ last = [op |-> "init", sid |-> 0, emitted |-> {}, data |-> None]
    /\ memories \in StoredMemories
    /\ discoveries_count = [u \in ActiveUsers |-> 0]

Radii == {1, 50, 500}
Limits == 1..MaxLimit
\* the viewer: nobody, the creator of the rows, somebody else
Viewers == {NoSuchUser, 1, 2}

FindNearby ==
    \E radius \in Radii, limit \in Limits, user \in Viewers :
    \E rows \in nearby_rows(407124, -740058, radius, limit, user) :
        /\ last' = [op |-> "find_nearby", sid |-> 0, emitted |-> {},
                    data |-> [latitude |-> 407124, longitude |-> -740058,
                              radius |-> radius, limit |-> limit, user |-> user,
                              result |-> find_nearby(rows, 407124, -740058, user)]]
        /\ UNCHANGED <<active_connections, rooms, conn_state, pc, db>>

SpecFindNearby == InitFindNearby /\ [][FindNearby]_vars

(***************************************************************************)
(* HTTP queries (routes/geospatial.py, routes/memories.py).  A query       *)
(* argument is a string: <<"num", v>> is a decimal literal (an integer     *)
(* literal for a radius or a grid size), <<"frac", v>> the literal of      *)
(* v + 0.5, <<"str", 0>> any other text, <<>> an argument not given.       *)
(***************************************************************************)
MaxDiscoveries == 2

Frac(v) == <<"frac", v>>

\* request.args.get(key, default, type=float or int): the converted value,
\* or the default when the argument is absent or the conversion raises
\* ValueError; int() refuses a literal with a decimal point
args_get(arg, default) ==
    IF arg = Absent THEN default ELSE IF IsNum(arg) THEN arg ELSE default

\* request.args.get(key): the string, or None
args_get_str(arg) == IF arg = Absent THEN None ELSE arg

\* validate_search_radius (validators.py:149-165)
validate_search_radius(radius) ==
    IF radius = None THEN "Search radius is required"
    ELSE IF ~IsNum(radius) THEN "Search radius must be a number"
    ELSE IF radius[2] < 50 THEN "Search radius must be at least 50 meters"
    ELSE IF radius[2] > 1000 THEN "Search radius cannot exceed 1000 meters"
    ELSE NoError

\* ST_DWithin(Memory.location, ST_GeogFromText(...), radius) (line 46): with
\* a geography the distance is in metres; 1e-4 degree is 11 m
ST_DWithin_geography(memory, latitude, longitude, radius) ==
    /\ 11 * (memory.latitude - latitude) <= radius
    /\ 11 * (latitude - memory.latitude) <= radius
    /\ 11 * (memory.longitude - longitude) <= radius
    /\ 11 * (longitude - memory.longitude) <= radius
    /\ 121 * ST_Distance(memory, latitude, longitude) <= radius * radius

\* lines 45-55, 84-89: the page the discover query may return (no optional
\* filter is given, the first page holds every row)
discover_rows(latitude, longitude, radius) ==
    order_by_distance({i \in DOMAIN memories :
                            /\ ST_DWithin_geography(memories[i], latitude, longitude, radius)
                            /\ memories[i].is_active
                            /\ memories[i].privacy_level = "public"
                            /\ ~is_expired(memories[i])},
                      latitude, longitude)

\* GET /geospatial/discover (routes/geospatial.py:14-139)
discover_memories(current_user_id, lat_arg, lon_arg, radius_arg) ==
    LET latitude == args_get(lat_arg, None)
        longitude == args_get(lon_arg, None)
        radius == args_get(radius_arg, Num(500))
        rejected == \/ validate_coordinates(latitude, longitude) # NoError
                    \/ validate_search_radius(radius) # NoError
    IN  /\ discoveries_count[current_user_id] < MaxDiscoveries
        /\ \E memories_data \in IF rejected THEN {<<>>}
                                ELSE discover_rows(latitude[2], longitude[2], radius[2]) :
            /\ discoveries_count' =
                    IF ~rejected /\ memories_data # <<>>
                    THEN [discoveries_count EXCEPT
                            ![current_user_id] = @ + Len(memories_data)]
                    ELSE discoveries_count
            /\ last' = [op |-> "discover", sid |-> 0, emitted |-> {},
                        data |-> [status |-> IF rejected THEN 400 ELSE 200,
                                  latitude |-> lat_arg, longitude |-> lon_arg,
                                  radius_arg |-> radius_arg,
                                  radius |-> radius,
                                  user |-> current_user_id,
                                  memories |-> memories_data]]
        /\ UNCHANGED <<active_connections, rooms, conn_state, pc, memories>>

\* the centres and radii clients ask for
QueryCentres ==
    { <<Num(407124), Num(-740058)>>,
      <<Num(910000), Num(-740058)>>,   \* latitude 91
      <<Absent, Num(-740058)>> }
QueryRadii == {Absent, Num(500), Num(49), Num(1001), Num(6000), Frac(10)}

DiscoverMemories ==
    \E u \in ActiveUsers, c \in QueryCentres, r \in QueryRadii :
        discover_memories(u, c[1], c[2], r)

\* "a, b = value" unpacks only a sequence of two items: None raises
\* TypeError, an error message (longer than two characters) ValueError
CoordinateResults ==
    { NoError, "Latitude and longitude are required", "Invalid coordinate format",
      "Latitude must be between -90 and 90 degrees",
      "Longitude must be between -180 and 180 degrees" }
is_pair(value) == value \notin CoordinateResults

\* float(radius) of an integer literal, then lines 496-497
clamp_radius(radius) == IF radius[2] > 5000 THEN 5000 ELSE radius[2]

\* GET /memories/nearby (routes/memories.py:476-517); user is the viewer
get_nearby_memories(user, lat_arg, lon_arg, radius_arg) ==
    LET latitude == args_get_str(lat_arg)
        longitude == args_get_str(lon_arg)
        radius == IF radius_arg = Absent THEN Num(500) ELSE radius_arg
        missing == latitude = None \/ longitude = None
        validated == validate_coordinates(latitude, longitude)
        answered == ~missing /\ is_pair(validated) /\ radius_arg # Str
    IN  \E rows \in IF answered
                    THEN nearby_rows(latitude[2], longitude[2], clamp_radius(radius),
                                     50, user)
                    ELSE {<<>>} :
            /\ last' = [op |-> "nearby", sid |-> 0, emitted |-> {},
                        data |-> [status |-> IF missing THEN 400
                                             ELSE IF answered THEN 200 ELSE 500,
                                  latitude |-> lat_arg, longitude |-> lon_arg,
                                  radius_arg |-> radius_arg,
                                  radius |-> IF answered THEN Num(clamp_radius(radius))
                                             ELSE None,
                                  user |-> user,
                                  memories |-> IF answered
                                               THEN find_nearby(rows, latitude[2],
                                                                longitude[2], user)
                                               ELSE <<>>]]
            /\ UNCHANGED <<active_connections, rooms, conn_state, pc, db>>

GetNearbyMemories ==
    \E u \in Viewers, c \in QueryCentres, r \in QueryRadii \ {Frac(10)} :
        get_nearby_memories(u, c[1], c[2], r)

(***************************************************************************)
(* Heatmaps                                                                *)
(***************************************************************************)
default_grid_size == 100        \* grid_size default 0.01 degrees (line 164)

\* lines 167-180: ST_Within the envelope, visible, grouped by grid cell
heatmap_cells(north, south, east, west) ==
    LET inside == {i \in DOMAIN memories :
                    /\ south < memories[i].latitude /\ memories[i].latitude < north
                    /\ west < memories[i].longitude /\ memories[i].longitude < east
                    /\ memories[i].is_active
                    /\ memories[i].privacy_level = "public"
                    /\ ~is_expired(memories[i])}
        cell(i) == <<(memories[i].longitude \div default_grid_size) * default_grid_size,
                     (memories[i].latitude \div default_grid_size) * default_grid_size>>
    IN  {[longitude |-> c[1], latitude |-> c[2],
          intensity |-> Cardinality({i \in inside : cell(i) = c})] :
            c \in {cell(i) : i \in inside}}

\* GET /geospatial/heatmap (routes/geospatial.py:142-203)
get_memory_heatmap(north_arg, south_arg, east_arg, west_arg) ==
    LET north == args_get(north_arg, None)
        south == args_get(south_arg, None)
        east == args_get(east_arg, None)
        west == args_get(west_arg, None)
        status == IF ~(Truthy(north) /\ Truthy(south) /\ Truthy(east) /\ Truthy(west))
                  THEN 400
                  ELSE IF north[2] <= south[2] \/ east[2] <= west[2] THEN 400
                  ELSE 200
    IN  /\ last' = [op |-> "heatmap", sid |-> 0, emitted |-> {},
                    data |-> [status |-> status,
                              north |-> north_arg, south |-> south_arg,
                              east |-> east_arg, west |-> west_arg,
                              grid_size |-> default_grid_size,
                              heatmap |-> IF status = 200
                                          THEN heatmap_cells(north[2], south[2],
                                                             east[2], west[2])
                                          ELSE {}]]
        /\ UNCHANGED <<active_connections, rooms, conn_state, pc, db>>

\* the boxes clients ask for: <<north, south, east, west>>
Boxes ==
    { <<Num(407500), Num(407000), Num(-739600), Num(-740100)>>,
      <<Num(407000), Num(407000), Num(-739600), Num(-740100)>>,  \* north = south
      <<Num(407500), Num(407000), Num(-740100), Num(-740100)>>,  \* east = west
      <<Num(407500), Num(0), Num(-739600), Num(-740100)>>,       \* south on the equator
      <<Num(910000), Num(407000), Num(-739600), Num(-740100)>>,  \* north = 91
      <<Absent, Num(407000), Num(-739600), Num(-740100)>> }

GetMemoryHeatmap == \E b \in Boxes : get_memory_heatmap(b[1], b[2], b[3], b[4])

\* lines 492-493: int(grid_size) kept between 5 and 50
clamp_grid_size(grid_size) ==
    IF grid_size[2] < 5 THEN 5 ELSE IF grid_size[2] > 50 THEN 50 ELSE grid_size[2]

\* lines 514-523: the rows counted for the cell i, j
cell_count(i, j, south, west, lat_step, lng_step) ==
    Cardinality({m \in DOMAIN memories :
                    /\ memories[m].is_active
                    /\ memories[m].privacy_level = "public"
                    /\ memories[m].latitude >= south + i * lat_step
                    /\ memories[m].latitude <= south + (i + 1) * lat_step
                    /\ memories[m].longitude >= west + j * lng_step
                    /\ memories[m].longitude <= west + (j + 1) * lng_step})

\* lines 496-536; the boxes asked for divide evenly into the grid
heatmap_data(north, south, east, west, grid_size) ==
    LET lat_step == (north - south) \div grid_size
        lng_step == (east - west) \div grid_size
    IN  {[i |-> c[1], j |-> c[2],
          intensity |-> cell_count(c[1], c[2], south, west, lat_step, lng_step)] :
            c \in {x \in (0..(grid_size - 1)) \X (0..(grid_size - 1)) :
                        cell_count(x[1], x[2], south, west, lat_step, lng_step) > 0}}

\* GET /geospatial/memory-heatmap (routes/geospatial.py:442-556)
get_memory_heatmap_v2(north_arg, south_arg, east_arg, west_arg, grid_arg) ==
    LET north == args_get_str(north_arg)
        south == args_get_str(south_arg)
        east == args_get_str(east_arg)
        west == args_get_str(west_arg)
        grid_size == clamp_grid_size(IF grid_arg = Absent THEN Num(20) ELSE grid_arg)
        status == IF north = None \/ south = None \/ east = None \/ west = None
                  THEN 400
                  ELSE IF ~(IsNum(north) /\ IsNum(south) /\ IsNum(east) /\ IsNum(west))
                  THEN 400
                  ELSE IF ~(-900000 <= south[2] /\ south[2] <= north[2]
                            /\ north[2] <= 900000)
                  THEN 400
                  ELSE IF ~(-1800000 <= west[2] /\ west[2] <= east[2]
                            /\ east[2] <= 1800000)
                  THEN 400
                  ELSE 200
    IN  /\ last' = [op |-> "memory_heatmap", sid |-> 0, emitted |-> {},
                    data |-> [status |-> status,
                              north |-> north_arg, south |-> south_arg,
                              east |-> east_arg, west |-> west_arg,
                              grid_size |-> grid_size,
                              heatmap |-> IF status = 200
                                          THEN heatmap_data(north[2], south[2], east[2],
                                                            west[2], grid_size)
                                          ELSE {}]]
        /\ UNCHANGED <<active_connections, rooms, conn_state, pc, db>>

GetMemoryHeatmapV2 ==
    \E b \in Boxes \cup {<<Str, Num(407000), Num(-739600), Num(-740100)>>},
       g \in {Absent, Num(5)} :
        get_memory_heatmap_v2(b[1], b[2], b[3], b[4], g)

(***************************************************************************)
(* Popular areas                                                           *)
(***************************************************************************)
\* likes_count + comments_count + discoveries_count
engagement(memory) ==
    memory.likes_count + memory.comments_count + memory.discoveries_count

\* Memory.get_popular_in_area (models/memory.py:310-320): the row lists the
\* query may return
get_popular_in_area(latitude, longitude, radius_meters, limit) ==
    LET ids == {i \in DOMAIN memories :
                    /\ ST_DWithin(memories[i], latitude, longitude, radius_meters)
                    /\ memories[i].is_active
                    /\ memories[i].privacy_level = "public"}
    IN  {sql_limit(s, limit) :
            s \in {o \in Orders(ids) :
                    \A k \in 1..(Len(o) - 1) :
                        engagement(memories[o[k]]) >= engagement(memories[o[k + 1]])}}

abs(x) == IF x < 0 THEN -x ELSE x

\* lines 592-624: one pass over the rows; clusters in insertion order
RECURSIVE location_clusters(_, _, _)
location_clusters(popular_memories, user, clusters) ==
    IF popular_memories = <<>> THEN clusters
    ELSE LET m == Head(popular_memories)
             memory == memories[m]
             matching == {k \in DOMAIN clusters :
                            /\ abs(memory.latitude - clusters[k].key[1]) < 10
                            /\ abs(memory.longitude - clusters[k].key[2]) < 10}
             cluster_key == CHOOSE k \in matching : \A n \in matching : k <= n
         IN  IF ~can_view(memory, user)
             THEN location_clusters(Tail(popular_memories), user, clusters)
             ELSE IF matching # {}
             THEN location_clusters(Tail(popular_memories), user,
                    [clusters EXCEPT ![cluster_key] =
                        [@ EXCEPT !.memories = Append(@, m),
                                  !.total_engagement = @ + engagement(memory)]])
             ELSE location_clusters(Tail(popular_memories), user,
                    Append(clusters,
                           [key |-> <<memory.latitude, memory.longitude>>,
                            memories |-> <<m>>,
                            total_engagement |-> engagement(memory)]))

\* lines 641-642: stable sort by engagement, descending, then the first limit
popular_areas(clusters, limit) ==
    LET sorted == CHOOSE o \in Orders(DOMAIN clusters) :
                    \A k \in 1..(Len(o) - 1) :
                        \/ clusters[o[k]].total_engagement
                            > clusters[o[k + 1]].total_engagement
                        \/ /\ clusters[o[k]].total_engagement
                                = clusters[o[k + 1]].total_engagement
                           /\ o[k] < o[k + 1]
    IN  sql_limit([k \in DOMAIN sorted |-> clusters[sorted[k]]], limit)

\* GET /geospatial/popular-areas (routes/geospatial.py:558-657), with the
\* default radius (5000) and limit (10)
get_popular_areas_v2(user, lat_arg, lon_arg) ==
    LET latitude == args_get_str(lat_arg)
        longitude == args_get_str(lon_arg)
        missing == latitude = None \/ longitude = None
        answered == ~missing /\ is_pair(validate_coordinates(latitude, longitude))
    IN  \E popular_memories \in IF answered
                                THEN get_popular_in_area(latitude[2], longitude[2],
                                                         5000, 30)
                                ELSE {<<>>} :
            /\ last' = [op |-> "popular_areas", sid |-> 0, emitted |-> {},
                        data |-> [status |-> IF missing THEN 400
                                             ELSE IF answered THEN 200 ELSE 500,
                                  latitude |-> lat_arg, longitude |-> lon_arg,
                                  user |-> user,
                                  popular_areas |->
                                    IF answered
                                    THEN popular_areas(
                                            location_clusters(popular_memories, user, <<>>),
                                            10)
                                    ELSE <<>>]]
            /\ UNCHANGED <<active_connections, rooms, conn_state, pc, db>>

GetPopularAreasV2 ==
    \E u \in Viewers, c \in QueryCentres : get_popular_areas_v2(u, c[1], c[2])

\* the tables the routes are asked about: two memories 44 m apart, one 5 km
\* away, one expired, with engagement 3, 2, 1 and 0
RouteRows ==
    << [Memory(1, 407124, -740058, "public") EXCEPT !.likes_count = 3],
       [Memory(1, 407128, -740058, "public") EXCEPT !.likes_count = 2],
       [Memory(1, 407574, -740058, "public") EXCEPT !.likes_count = 1],
       [Memory(1, 407124, -740058, "public") EXCEPT !.expiration_date = Num(1)] >>

RouteTables ==
    {<<>>} \cup {SubSeq(RouteRows, a, b) : a \in 1..4, b \in 1..4}

InitRoutes ==
    /\ active_connections = <<>>
    /\ rooms = {}
    /\ conn_state = [s \in Sids |-> "new"]
    /\ pc = [s \in Sids |-> Idle]
    /\ last = [op |-> "init", sid |-> 0, emitted |-> {}, data |-> None]
    /\ memories \in RouteTables
    /\ discoveries_count = [u \in ActiveUsers |-> 0]

NextRoutes ==
    \/ DiscoverMemories
    \/ GetNearbyMemories
    \/ GetMemoryHeatmap
    \/ GetMemoryHeatmapV2
    \/ GetPopularAreasV2

SpecRoutes == InitRoutes /\ [][NextRoutes]_vars

(***************************************************************************)
(* Properties                                                              *)
(***************************************************************************)
LocationRoomsOf(sid) == {m[1] : m \in {x \in rooms : x[2] = sid /\ x[1][1] = "location"}}
UserRoomsOf(sid) == {m[1] : m \in {x \in rooms : x[2] = sid /\ x[1][1] = "user"}}
Receivers(event) == {e[1] : e \in {x \in last.emitted : x[2] = event}}

\* the credential is missing, invalid or expired, or names no active user
CredentialRefused(auth) ==
    \/ auth = NoAuth
    \/ auth = BadToken
    \/ auth[1] = "tok" /\ auth[2] \in {NoSuchUser, InactiveUser}

\* C1: a connect refused for its credential (missing, invalid or expired
\* token, unknown or inactive user) never reaches Connected and leaves
\* nothing behind: no entry of active_connections, no user room and no
\* connected confirmation.
C1_RefusedConnectLeavesNoState ==
    (last.op = "connect" /\ CredentialRefused(last.data.auth)) =>
        /\ last.sid \notin Keys
        /\ conn_state[last.sid] = "rejected"
        /\ UserRoomsOf(last.sid) = {}
        /\ \A m \in rooms : m[2] # last.sid
        /\ last.emitted = {}
        /\ last.data.ret = "False"

C1_Witness ==
    /\ last.op = "connect"
    /\ last.data.auth = Token(InactiveUser)
    /\ last.sid \notin Keys
    /\ conn_state[last.sid] = "rejected"
    /\ Keys # {}

\* C2: a session is in no grid room other than the one its latest
\* successful join_location targeted: right after join_location to room B
\* the registry records B, the connection is in room B only, and it is no
\* longer among the members of the room A it was in before.
C2_OnlyInLatestRoom ==
    /\ \A s \in Keys : \A r \in LocationRoomsOf(s) :
           active_connections[s].location_room = r
    /\ (last.op = "join_location" /\ last.emitted = {<<last.sid, "location_joined">>}) =>
           /\ last.data.room = grid_room(last.data.latitude, last.data.longitude)
           /\ active_connections[last.sid].location_room = last.data.room
           /\ LocationRoomsOf(last.sid) = {last.data.room}
           /\ last.data.previous \notin {Absent, last.data.room} =>
                  /\ last.sid \notin members(rooms, last.data.previous)
                  /\ last.sid \notin
                        nearby_match(active_connections, last.data.previous, NoSuchUser)

C2_Witness ==
    /\ last.op = "join_location"
    /\ last.emitted = {<<last.sid, "location_joined">>}
    /\ last.data.previous \notin {Absent, last.data.room}
    /\ members(rooms, last.data.previous) # {}
    /\ last.sid \notin members(rooms, last.data.previous)

\* C3: every registered session has location_room and current_location
\* both absent, or both present with location_room the grid room of the
\* stored coordinates rounded to 3 decimals.
C3_RoomDerivedFromLocation ==
    \A s \in Keys :
        LET info == active_connections[s] IN
        \/ info.location_room = Absent /\ info.current_location = Absent
        \/ /\ info.location_room # Absent
           /\ info.current_location # Absent
           /\ info.location_room =
                  grid_room(info.current_location[1], info.current_location[2])

C3_Witness ==
    \E s \in Keys :
        /\ last.op = "join_location" /\ last.sid = s
        /\ last.data.previous \notin {Absent, last.data.room}
        /\ active_connections[s].location_room = <<"location", 40713, -74006>>
        /\ active_connections[s].current_location = <<Num(407128), Num(-740058)>>

\* the sids named by the entries of a nearby_users list
Listed(users) == {users[i].sid : i \in 1..Len(users)}

\* C4: with handlers of different connections running concurrently, a
\* get_nearby_users of another connection never observes a half-updated
\* session: every session it lists has coordinates, and they lie in the
\* room the list was asked for.
C4_NoHalfUpdatedSessionObserved ==
    last.op = "get_nearby_users" =>
        \A i \in 1..Len(last.data.users) :
            LET location == last.data.users[i].location IN
            /\ location # Absent
            /\ grid_room(location[1], location[2]) = last.data.room

\* C5: a connection that has disconnected has no session, is a member of
\* no room, is listed in no get_nearby_users result and receives no
\* notification, whatever rooms it had joined.
C5_DisconnectedIsNowhere ==
    \A s \in Sids : conn_state[s] = "disconnected" =>
        /\ s \notin Keys
        /\ \A m \in rooms : m[2] # s
        /\ s \notin Receivers("notify")
        /\ last.op = "get_nearby_users" => s \notin Listed(last.data.users)

C5_Witness ==
    /\ last.op = "disconnect"
    /\ conn_state[last.sid] = "disconnected"
    /\ last.data.location_room # Absent
    /\ members(rooms, last.data.location_room) # {}

\* C6: in notify_location with an excluded user, an emit that fails for one
\* member session does not keep the other member sessions of the room from
\* receiving the notification.
C6_FanoutSurvivesOneFailure ==
    (/\ last.op = "notify_location"
     /\ last.data.exclude # NoExclude
     /\ IsNum(last.data.latitude) /\ IsNum(last.data.longitude)) =>
        LET room == grid_room(last.data.latitude, last.data.longitude) IN
        \A s \in Keys :
            (/\ active_connections[s].location_room = room
             /\ active_connections[s].user_id # last.data.exclude
             /\ s # last.data.fail) => s \in Receivers("notify")

\* C7: notify_user(u) delivers to exactly the live sessions registered for
\* user u: all of them, no session of another user, no disconnected
\* connection; with no session of u nothing is delivered.
C7_NotifyUserReachesExactlyTheUsersSessions ==
    last.op = "notify_user" =>
        /\ Receivers("notify") =
              {s \in Keys : conn_state[s] = "connected"
                            /\ active_connections[s].user_id = last.data}
        /\ \A e \in last.emitted : e[2] = "notify"

C7_Witness ==
    /\ last.op = "notify_user"
    /\ Cardinality(Receivers("notify")) >= 2

\* C8: notify_location delivers to exactly the sessions that
\* active_connections records in the grid room of the coordinates, minus
\* the sessions of the excluded user when one is given.
C8_NotifyLocationRecipients ==
    (/\ last.op = "notify_location"
     /\ IsNum(last.data.latitude) /\ IsNum(last.data.longitude)
     /\ last.data.fail = NoFail) =>
        Receivers("notify") =
            {s \in Keys :
                /\ active_connections[s].location_room =
                       grid_room(last.data.latitude, last.data.longitude)
                /\ active_connections[s].user_id # last.data.exclude}

C8_Witness ==
    /\ last.op = "notify_location"
    /\ last.data.exclude # NoExclude
    /\ last.data.fail = NoFail
    /\ Receivers("notify") # {}
    /\ \E s \in Keys :
          /\ active_connections[s].user_id = last.data.exclude
          /\ active_connections[s].location_room =
                 grid_room(last.data.latitude, last.data.longitude)

\* get_nearby_users was just answered for a Located session
NearbyAnswered ==
    /\ last.op = "get_nearby_users"
    /\ last.sid \in Keys
    /\ active_connections[last.sid].location_room # Absent

\* C9 (as claimed): get_nearby_users of a Located session lists every
\* other session Located in the same grid room, and not the caller.
C9_EverySessionOfTheRoomListed ==
    NearbyAnswered =>
        /\ \A s \in Keys \ {last.sid} :
               active_connections[s].location_room =
                   active_connections[last.sid].location_room
               => s \in Listed(last.data.users)
        /\ last.sid \notin Listed(last.data.users)

\* C9 (amended): get_nearby_users of a Located session lists exactly the
\* sessions of OTHER users Located in the same grid room, each with its
\* user id, username and stored coordinates; it lists neither the caller
\* nor any other session of the caller's user.
C9_SessionsOfOtherUsersListed ==
    NearbyAnswered =>
        LET me == active_connections[last.sid]
            users == last.data.users
        IN  /\ Listed(users) =
                  {s \in Keys : /\ active_connections[s].location_room = me.location_room
                                /\ active_connections[s].user_id # me.user_id}
            /\ last.sid \notin Listed(users)
            /\ \A i \in 1..Len(users) :
                   /\ users[i].user_id = active_connections[users[i].sid].user_id
                   /\ users[i].username = username(users[i].user_id)
                   /\ users[i].location = active_connections[users[i].sid].current_location
            /\ \A i, j \in 1..Len(users) : users[i].sid = users[j].sid => i = j

C9_Witness ==
    /\ NearbyAnswered
    /\ Len(last.data.users) >= 1

\* latitude in [-90, 90] and longitude in [-180, 180], both present
ValidCoordinate(latitude, longitude) ==
    /\ IsNum(latitude) /\ IsNum(longitude)
    /\ -900000 <= latitude[2] /\ latitude[2] <= 900000
    /\ -1800000 <= longitude[2] /\ longitude[2] <= 1800000

\* C10: join_location on a connected session is rejected exactly when the
\* coordinates are absent or invalid; then an error is emitted and the
\* session keeps its room; every valid coordinate, latitude 0 or longitude
\* 0 included, moves the session to Located and emits location_joined.
C10_JoinRejectsExactlyInvalid ==
    (last.op = "join_location" /\ last.sid \in Keys) =>
        LET info == active_connections[last.sid] IN
        IF ValidCoordinate(last.data.latitude, last.data.longitude)
        THEN /\ last.emitted = {<<last.sid, "location_joined">>}
             /\ info.location_room =
                    grid_room(last.data.latitude, last.data.longitude)
             /\ info.current_location = <<last.data.latitude, last.data.longitude>>
        ELSE /\ last.emitted = {<<last.sid, "error">>}
             /\ info.location_room = last.data.previous

\* the memory a memory event names, when it is stored and active
EventMemoryFound == last.sid \in Keys /\ memory_found(last.data.memory_id)

\* C11: every successful creation of a memory through the HTTP create
\* action is followed, with no further action of the client, by a
\* new_memory_nearby broadcast to the grid room of the memory's coordinates:
\* the create action itself delivers new_memory_nearby to the members of
\* that room.
C11_CreateBroadcastsToGridRoom ==
    (last.op = "create_memory" /\ last.data.status = 201) =>
        LET memory == memories[last.data.memory_id] IN
        last.emitted = emit_room(rooms,
                                 location_room_name(round3(memory.latitude),
                                                    round3(memory.longitude)),
                                 "new_memory_nearby")

\* C12: a like or comment on an active memory sends memory_interaction to
\* the sessions of the creator's user room exactly when the acting
\* session's user is not the creator; acting on one's own memory notifies
\* nobody.
C12_InteractionNotifiesCreatorUnlessOwn ==
    (last.op \in {"memory_liked", "memory_commented"} /\ EventMemoryFound) =>
        LET creator == str(memories[last.data.memory_id].creator_id) IN
        Receivers("memory_interaction") =
            IF active_connections[last.sid].user_id = creator THEN {}
            ELSE members(rooms, user_room(creator))

NearbyAnsweredQuery == last.op = "find_nearby"
ResultIds == {last.data.result[k].memory_id : k \in DOMAIN last.data.result}

\* the memory lies within radius metres of the centre: one unit of latitude
\* (1e-4 degree) is 11 m
WithinMetres(memory, latitude, longitude, radius) ==
    /\ 11 * (memory.latitude - latitude) <= radius
    /\ 11 * (latitude - memory.latitude) <= radius
    /\ 11 * (memory.longitude - longitude) <= radius
    /\ 11 * (longitude - memory.longitude) <= radius
    /\ 121 * ST_Distance(memory, latitude, longitude) <= radius * radius

\* what the claim lets a viewer see of a query
Qualifies(i) ==
    /\ WithinMetres(memories[i], last.data.latitude, last.data.longitude, last.data.radius)
    /\ memories[i].is_active
    /\ ~is_expired(memories[i])
    /\ \/ memories[i].privacy_level = "public"
       \/ last.data.user # NoSuchUser /\ str(memories[i].creator_id) = last.data.user

\* C13: a memory appears in a find_nearby result if and only if it lies
\* within the radius and within the limit, is active, is not expired, and
\* is public or the viewer's own: every returned memory qualifies, and a
\* qualifying memory is returned when fewer than limit qualifying memories
\* are at most as far from the centre as it is.
C13_ReturnedIffVisibleAndInRange ==
    NearbyAnsweredQuery =>
        \A i \in DOMAIN memories :
            LET nearer == {j \in DOMAIN memories \ {i} :
                            /\ Qualifies(j)
                            /\ ST_Distance(memories[j], last.data.latitude, last.data.longitude)
                               <= ST_Distance(memories[i], last.data.latitude, last.data.longitude)}
            IN  /\ i \in ResultIds => Qualifies(i)
                /\ (Qualifies(i) /\ Cardinality(nearer) < last.data.limit) => i \in ResultIds

C15_TiesNewestFirst ==
    NearbyAnsweredQuery =>
        LET result == last.data.result IN
        \A k \in 1..(Len(result) - 1) :
            result[k].distance = result[k + 1].distance =>
                memories[result[k].memory_id].created_at
                    > memories[result[k + 1].memory_id].created_at

\* C16: for a fixed centre, viewer and limit and unchanged data, every
\* memory returned with a valid radius r1 is also returned with any
\* larger valid radius r2.
C16_LargerRadiusReturnsSuperset ==
    [][(/\ last.op = "find_nearby" /\ last'.op = "find_nearby"
        /\ memories' = memories
        /\ last'.data.latitude = last.data.latitude
        /\ last'.data.longitude = last.data.longitude
        /\ last'.data.user = last.data.user
        /\ last'.data.limit = last.data.limit
        /\ 50 <= last.data.radius
        /\ last.data.radius < last'.data.radius)
       => \A k \in DOMAIN last.data.result :
            \E n \in DOMAIN last'.data.result :
                last'.data.result[n].memory_id = last.data.result[k].memory_id]_vars

\* a query argument that is a number, and that number doubled (a literal
\* of v + 0.5 doubles to 2v + 1)
IsNumeric(arg) == arg # Absent /\ arg[1] \in {"num", "frac"}
Doubled(arg) == IF arg[1] = "frac" THEN 2 * arg[2] + 1 ELSE 2 * arg[2]

\* the centre of a query is missing or not a coordinate, or its radius is a
\* number outside 50 .. max metres
BadQuery(data, max) ==
    \/ data.latitude = Absent \/ data.longitude = Absent
    \/ ~ValidCoordinate(data.latitude, data.longitude)
    \/ /\ IsNumeric(data.radius_arg)
       /\ Doubled(data.radius_arg) < 100 \/ Doubled(data.radius_arg) > 2 * max

ValidBox(north, south, east, west) ==
    /\ north # Absent /\ south # Absent /\ east # Absent /\ west # Absent
    /\ IsNum(north) /\ IsNum(south) /\ IsNum(east) /\ IsNum(west)
    /\ north[2] > south[2] /\ east[2] > west[2]
    /\ -900000 <= south[2] /\ north[2] <= 900000
    /\ -1800000 <= west[2] /\ east[2] <= 1800000

\* C18: heatmap accepts a bounding box exactly when north > south,
\* east > west and the bounds are in range; a box with north = south or
\* east = west is rejected, a valid box with a bound 0 is accepted.
C18_HeatmapAcceptsExactlyValidBoxes ==
    last.op \in {"heatmap", "memory_heatmap"} =>
        (last.data.status = 200
            <=> ValidBox(last.data.north, last.data.south, last.data.east, last.data.west))

\* the public, active, unexpired memories whose coordinate falls in cell i, j
VisibleInCell(i, j) ==
    LET lat_step == (last.data.north[2] - last.data.south[2]) \div last.data.grid_size
        lng_step == (last.data.east[2] - last.data.west[2]) \div last.data.grid_size
    IN  {m \in DOMAIN memories :
            /\ memories[m].is_active
            /\ memories[m].privacy_level = "public"
            /\ ~is_expired(memories[m])
            /\ memories[m].latitude >= last.data.south[2] + i * lat_step
            /\ memories[m].latitude <= last.data.south[2] + (i + 1) * lat_step
            /\ memories[m].longitude >= last.data.west[2] + j * lng_step
            /\ memories[m].longitude <= last.data.west[2] + (j + 1) * lng_step}

\* C19: for every cell of the grid_size x grid_size grid the reported
\* intensity is the number of public, active, non-expired memories in the
\* cell, and the cell is in the output exactly when that number is positive.
C19_IntensityCountsVisibleMemories ==
    (last.op = "memory_heatmap" /\ last.data.status = 200) =>
        \A i \in 0..(last.data.grid_size - 1), j \in 0..(last.data.grid_size - 1) :
            LET reported == {c \in last.data.heatmap : c.i = i /\ c.j = j}
                n == Cardinality(VisibleInCell(i, j))
            IN  /\ (n > 0) <=> (reported # {})
                /\ \A c \in reported : c.intensity = n

\* C20: popular_areas puts every visible memory of the area into exactly
\* one cluster (the first existing one whose centre is within the cluster
\* radius, else a new one); two memories within the cluster radius of each
\* other and one far away yield exactly two clusters.
C20_EveryVisibleMemoryInOneCluster ==
    (/\ last.op = "popular_areas"
     /\ last.data.latitude # Absent /\ last.data.longitude # Absent
     /\ ValidCoordinate(last.data.latitude, last.data.longitude)) =>
        LET areas == last.data.popular_areas IN
        /\ last.data.status = 200
        /\ \A m \in DOMAIN memories :
            can_view(memories[m], last.data.user) =>
                Cardinality({k \in DOMAIN areas :
                                \E n \in DOMAIN areas[k].memories :
                                    areas[k].memories[n] = m}) = 1
        /\ memories = SubSeq(RouteRows, 1, 3) => Len(areas) = 2

\* the digits of a coordinate up to its 3rd decimal place (v is in 1e-4 degrees)
first3(v) == IF v >= 0 THEN v \div 10 ELSE -((-v) \div 10)

\* C21: the grid room is a function of the coordinate alone (a joined
\* session's room is the room of the coordinate it sent), and two coordinates
\* whose latitude and longitude agree in their first 3 decimal places, and
\* differ only beyond the 3rd, map to the same room.
C21_SameDecimalsSameRoom ==
    /\ (last.op = "join_location" /\ last.emitted = {<<last.sid, "location_joined">>}) =>
           last.data.room = grid_room(last.data.latitude, last.data.longitude)
    /\ \A s, t \in Keys :
           LET a == active_connections[s].current_location
               b == active_connections[t].current_location
           IN  (/\ a # Absent /\ b # Absent
                /\ first3(a[1][2]) = first3(b[1][2])
                /\ first3(a[2][2]) = first3(b[2][2]))
               => active_connections[s].location_room = active_connections[t].location_room

\* C22: a session follows the lifecycle register, set location, clear
\* location: a user_status handled right after the session's successful
\* connect reports connected with no current_location and no location_room;
\* right after its join_location it reports the joined coordinate and the
\* grid room of it; right after its leave_location both are absent again.
C22_StatusFollowsLifecycle ==
    [][(last'.op = "user_status" /\ last'.sid = last.sid) =>
          /\ (last.op = "connect" /\ last.data.ret = "None") =>
                 /\ last'.data.connected
                 /\ last'.data.current_location = None
                 /\ last'.data.location_room = None
          /\ (last.op = "join_location" /\ last.emitted = {<<last.sid, "location_joined">>}) =>
                 /\ last'.data.connected
                 /\ last'.data.current_location = <<last.data.latitude, last.data.longitude>>
                 /\ last'.data.location_room =
                        grid_room(last.data.latitude, last.data.longitude)
          /\ (last.op = "leave_location" /\ last.sid \in Keys) =>
                 /\ last'.data.connected
                 /\ last'.data.current_location = None
                 /\ last'.data.location_room = None]_vars

C22_Witness ==
    /\ last.op = "user_status"
    /\ last.data.connected
    /\ last.data.current_location = <<Num(407124), Num(-740058)>>
    /\ last.data.location_room = <<"location", 40712, -74006>>
    /\ active_connections[last.sid].location_room = <<"location", 40712, -74006>>

\* a registered session that has no location room
Unlocated(sid) == sid \in Keys /\ active_connections[sid].location_room = Absent

\* C23: for a connected session that is Unlocated, leave_location and
\* get_nearby_users are non-error operations that change nothing:
\* leave_location emits no error event, get_nearby_users answers with an
\* empty user list, and active_connections (the session's entry and every
\* other entry) and the rooms are unchanged.
C23_UnlocatedLeaveAndNearbyChangeNothing ==
    [][(last'.op \in {"leave_location", "get_nearby_users"} /\ Unlocated(last'.sid)) =>
          /\ active_connections' = active_connections
          /\ rooms' = rooms
          /\ <<last'.sid, "error">> \notin last'.emitted
          /\ last'.op = "leave_location" => last'.emitted = {}
          /\ last'.op = "get_nearby_users" =>
                 /\ last'.emitted = {<<last'.sid, "nearby_users">>}
                 /\ last'.data.users = <<>>]_vars

C23_Witness ==
    /\ last.op = "get_nearby_users"
    /\ Unlocated(last.sid)
    /\ last.data.users = <<>>
    /\ \E t \in Keys : /\ active_connections[t].user_id # active_connections[last.sid].user_id
                       /\ active_connections[t].location_room = Absent

HandlerFailed(l) ==
    /\ l.sid \in Keys
    /\ \/ l.op = "join_location" /\ l.data.message = ErrJoin
       \/ l.op = "leave_location" /\ <<l.sid, "error">> \in l.emitted
       \/ l.op = "memory_created" /\ memory_found(l.data.memory_id) /\ l.emitted = {}

\* C25: an unexpected internal failure while handling a realtime event of a
\* registered session never removes the session from active_connections,
\* never disconnects it, and leaves its location_room and current_location
\* exactly as they were before the event.
C25_FailedEventLeavesSessionAsItWas ==
    [][HandlerFailed(last') =>
          /\ last'.sid \in DOMAIN active_connections'
          /\ conn_state'[last'.sid] = conn_state[last'.sid]
          /\ active_connections'[last'.sid].location_room =
                 active_connections[last'.sid].location_room
          /\ active_connections'[last'.sid].current_location =
                 active_connections[last'.sid].current_location]_vars

LocationRooms == {m[1] : m \in {x \in rooms : x[1][1] = "location"}}
                 \cup {active_connections[s].location_room :
                          s \in {k \in Keys : active_connections[k].location_room # Absent}}

\* C27: the two records of room membership agree after every event (a
\* join_location that fails part-way and a leave_location included): a
\* connection is in the transport-level location room R exactly when
\* active_connections records location_room = R for it, so that
\* notify_location with an excluded user reaches the members of the room
\* that are not sessions of that user.
C27_RoomRecordsAgree ==
    \A R \in LocationRooms :
        /\ members(rooms, R) = {s \in Keys : active_connections[s].location_room = R}
        /\ \A x \in ActiveUsers :
               {s \in Keys : \E i \in 1..Len(location_targets(active_connections, R, x)) :
                                 location_targets(active_connections, R, x)[i] = s}
               = {s \in members(rooms, R) : active_connections[s].user_id # x}

C27_Witness ==
    /\ last.op = "join_location"
    /\ last.data.fault = "emit"
    /\ last.data.previous \notin {Absent, last.data.room}
    /\ last.sid \in members(rooms, last.data.room)
    /\ last.sid \notin members(rooms, last.data.previous)
    /\ active_connections[last.sid].location_room = last.data.room

\* the events a client sends after connect
ClientEvents ==
    {"join_location", "leave_location", "get_nearby_users", "ping", "user_status",
     "memory_created", "memory_liked", "memory_commented"}

\* C28: an event received on a connection that has no registered session
\* (rejected at connect, or already disconnected) never changes
\* active_connections, never joins or leaves a room, and never causes a
\* new_memory_nearby or memory_interaction delivery (nor any delivery to
\* another session).
C28_UnregisteredEventChangesNothing ==
    [][(last'.op \in ClientEvents /\ last'.sid \notin Keys) =>
          /\ active_connections' = active_connections
          /\ rooms' = rooms
          /\ \A e \in last'.emitted :
                 /\ e[1] = last'.sid
                 /\ e[2] \notin {"new_memory_nearby", "memory_interaction"}]_vars

C28_Witness ==
    /\ last.op = "memory_liked"
    /\ last.sid \notin Keys
    /\ conn_state[last.sid] = "disconnected"
    /\ memory_found(last.data.memory_id)
    /\ members(rooms, user_room(str(memories[last.data.memory_id].creator_id))) # {}
    /\ last.emitted = {}

VisibleInRange ==
    {i \in DOMAIN memories :
        /\ ST_DWithin(memories[i], last.data.latitude, last.data.longitude, last.data.radius)
        /\ can_view(memories[i], last.data.user)}

\* C30: find_nearby returns exactly min(limit, V) memories, V the number of
\* memories within the radius that the viewer can see: expired memories in
\* range use up no place of the limit, and a visible memory in range is
\* omitted only when limit visible memories at most as far away are returned.
C30_ReturnsMinOfLimitAndVisible ==
    NearbyAnsweredQuery =>
        LET V == Cardinality(VisibleInRange)
            distance(i) == ST_Distance(memories[i], last.data.latitude, last.data.longitude)
        IN  /\ Len(last.data.result) = IF V < last.data.limit THEN V ELSE last.data.limit
            /\ \A i \in VisibleInRange \ ResultIds :
                   Cardinality({j \in ResultIds : distance(j) <= distance(i)})
                       >= last.data.limit

====
